---- MODULE Spec2Model ----
(***************************************************************************)
(* V4L2MediaSource (src/v4l2_media_source.go): a capture device fanned out *)
(* to any number of tracks.  The source holds no lock: GetTrack,           *)
(* CloseTrack and Close run in caller goroutines, readLoop in a goroutine  *)
(* of its own, and every access to ms.tracks is a separate step that       *)
(* interleaves with the steps of the other goroutines.                     *)
(***************************************************************************)
EXTENDS Integers, Sequences, FiniteSets, TLC

\* ------------------------------------------------------------- bounds
NumCallers == 1      \* caller goroutines using the source
MaxTracks == 2       \* GetTrack calls in one run (each makes a fresh track)
MaxChunks == 2       \* chunks the device produces in one run
ScenarioChunks == 3  \* chunks the device yields in the A, B, C scenario

Callers == 1..NumCallers
\* one readLoop goroutine can be launched per GetTrack
Loops == (NumCallers + 1)..(NumCallers + MaxTracks)
Tasks == Callers \cup Loops
TrackIds == 1..MaxTracks
\* a Track value that this source never issued
Foreign == 0

VARIABLES
  tracks,      \* ms.tracks: the keys of map[Track]*Buffer (buffer of t is t's)
  nextTrack,   \* identity of the next track NewH264VideoTrack allocates
  bufOpen,     \* Buffer: not yet closed
  bufData,     \* Buffer: the chunks written to it, in order
  devRunning,  \* device: Start called more recently than Stop
  devClosed,   \* device: Close called
  produced,    \* device: number of chunks returned by Read so far
  pc,          \* position of each goroutine
  arg,         \* the track a goroutine's GetTrack/CloseTrack is working on
  ret,         \* where a goroutine's CloseTrack returns to
  todo,        \* entries a goroutine's range over ms.tracks has yet to produce
  held,        \* readLoop: chunk in buf[:n] (0: a zero-length read)
  crashed,     \* the runtime threw on a concurrent map access
  joinedAt,    \* history: chunks produced when the track was added
  first,       \* history: this GetTrack's add took the map from size 0 to 1
  last,        \* history: this CloseTrack's delete took the map from size 1 to 0
  errAt,       \* history: the map when a loop's Read returned an error
  starts,      \* history: calls of ms.device.Start() that have returned
  owner,       \* history: the track whose GetTrack launched the loop
  ctor,        \* the call of NewV4L2MediaSource
  rtsp         \* the call of NewRTSPAudioVideoSource

vars == <<tracks, nextTrack, bufOpen, bufData, devRunning, devClosed, produced,
          pc, arg, ret, todo, held, crashed, joinedAt, first, last, errAt,
          starts, owner, ctor, rtsp>>

dev == <<devRunning, devClosed, produced>>
hist == <<joinedAt, first, last, errAt>>
made == <<ctor, rtsp>>

\* positions inside the body of CloseTrack
CloseTrackBody == {"ct_lookup", "ct_delete", "ct_len", "ct_stop", "ct_bufclose"}

\* a goroutine whose range over ms.tracks is under way (the body included)
Ranging(p) ==
  \/ pc[p] \in {"write", "cleanup", "cl_range"}
  \/ pc[p] \in CloseTrackBody /\ ret[p] \in {"cleanup", "cl_range"}

\* a goroutine between the first and the last access to ms.tracks of the
\* call it is executing
InRegion(p) ==
  \/ Ranging(p)
  \/ pc[p] \in {"gt_len", "ct_delete", "ct_len"}

\* a readLoop goroutine that was launched and has not returned
Running(l) == pc[l] \notin {"off", "done"}

\* the fields of the source and the goroutines' positions right after
\* NewV4L2MediaSource has returned the source: an empty map, a device that
\* is open and not started, no readLoop
Fresh ==
  /\ tracks = {}
  /\ nextTrack = 1
  /\ bufOpen = [t \in TrackIds |-> FALSE]
  /\ bufData = [t \in TrackIds |-> <<>>]
  /\ devRunning = FALSE
  /\ devClosed = FALSE
  /\ produced = 0
  /\ pc = [p \in Tasks |-> IF p \in Callers THEN "idle" ELSE "off"]
  /\ arg = [p \in Tasks |-> Foreign]
  /\ ret = [p \in Tasks |-> IF p \in Callers THEN "idle" ELSE "cleanup"]
  /\ todo = [p \in Tasks |-> {}]
  /\ held = [l \in Loops |-> 0]
  /\ crashed = FALSE
  /\ joinedAt = [t \in TrackIds |-> 0]
  /\ first = [p \in Tasks |-> FALSE]
  /\ last = [p \in Tasks |-> FALSE]
  /\ errAt = [l \in Loops |-> {}]
  /\ starts = 0
  /\ owner = [l \in Loops |-> Foreign]

\* -------------------------------------------------------- constructors
\* the absent source and the absent error of a (source, error) result
Nil == "nil"

\* the calls NewV4L2MediaSource makes on the device, in the order of the code
OpenSteps == <<"Open", "SetBitrate", "FlipHorizontal", "FlipVertical">>

\* URL arguments of NewRTSPAudioVideoSource
Urls == {"", "rtsp://camera/live", "not a url"}

\* ctor before the call: the arguments hflip and vflip, and fails, the
\* device calls that return an error if they are made
NotBuilt(hflip, vflip, fails) ==
  [pc |-> "Open", hflip |-> hflip, vflip |-> vflip, fails |-> fails,
   tried |-> <<>>, src |-> Nil, err |-> Nil]

\* ctor after a call that has returned the source
Built ==
  [pc |-> "returned", hflip |-> FALSE, vflip |-> FALSE, fails |-> {},
   tried |-> <<"Open", "SetBitrate">>, src |-> "source", err |-> Nil]

\* rtsp before the call
NotCalled(url) == [pc |-> "call", url |-> url, src |-> "unset", err |-> "unset"]

Init ==
  /\ Fresh
  /\ ctor = Built
  /\ rtsp = NotCalled("")

\* the outcome of one device call of the constructor: an error chosen by the
\* device, or none
DeviceCallFails(step) == step \in ctor.fails

\* if err != nil { return nil, err } after a device call that ignores err
AfterStepIgnoringErr(step, next) ==
  [ctor EXCEPT !.pc = next, !.tried = Append(@, step)]

\* a device call of the constructor followed by
\* if err != nil { return nil, err }
AfterStep(step, next) ==
  IF DeviceCallFails(step)
    THEN [ctor EXCEPT !.pc = "returned", !.tried = Append(@, step),
                      !.src = Nil, !.err = step]
    ELSE [ctor EXCEPT !.pc = next, !.tried = Append(@, step)]

\* dev, err := v4l2.Open(filename, &v4l2.Config{...})
NewOpen ==
  /\ ctor.pc = "Open"
  /\ ctor' = AfterStep("Open", "SetBitrate")
  /\ UNCHANGED <<tracks, nextTrack, bufOpen, bufData, dev, pc, arg, ret, todo,
                 held, crashed, hist, starts, owner, rtsp>>

\* dev.SetBitrate(bitrate)
NewSetBitrate ==
  /\ ctor.pc = "SetBitrate"
  /\ ctor' = AfterStep("SetBitrate", "FlipHorizontal")
  /\ UNCHANGED <<tracks, nextTrack, bufOpen, bufData, dev, pc, arg, ret, todo,
                 held, crashed, hist, starts, owner, rtsp>>

\* if hflip { dev.FlipHorizontal() }
NewFlipHorizontal ==
  /\ ctor.pc = "FlipHorizontal"
  /\ ctor' = IF ctor.hflip THEN AfterStep("FlipHorizontal", "FlipVertical")
                           ELSE [ctor EXCEPT !.pc = "FlipVertical"]
  /\ UNCHANGED <<tracks, nextTrack, bufOpen, bufData, dev, pc, arg, ret, todo,
                 held, crashed, hist, starts, owner, rtsp>>

\* if vflip { dev.FlipVertical() }
NewFlipVertical ==
  /\ ctor.pc = "FlipVertical"
  /\ ctor' = IF ctor.vflip THEN AfterStep("FlipVertical", "make")
                           ELSE [ctor EXCEPT !.pc = "make"]
  /\ UNCHANGED <<tracks, nextTrack, bufOpen, bufData, dev, pc, arg, ret, todo,
                 held, crashed, hist, starts, owner, rtsp>>

\* return &V4L2MediaSource{device: dev, tracks: make(map[Track]*Buffer)}, nil
NewReturn ==
  /\ ctor.pc = "make"
  /\ ctor' = [ctor EXCEPT !.pc = "returned", !.src = "source", !.err = Nil]
  /\ UNCHANGED <<tracks, nextTrack, bufOpen, bufData, dev, pc, arg, ret, todo,
                 held, crashed, hist, starts, owner, rtsp>>

\* a constructor that returns a source for a well-formed URL
NewRTSPAudioVideoSourceForUrl(url) ==
  IF url = "rtsp://camera/live"
    THEN [src |-> "source", err |-> Nil]
    ELSE [src |-> Nil, err |-> "errNotImplemented"]

\* return nil, errNotImplemented
NewRTSPAudioVideoSource(url) == [src |-> Nil, err |-> "errNotImplemented"]

\* a call of NewRTSPAudioVideoSource(url)
CallNewRTSP ==
  /\ rtsp.pc = "call"
  /\ rtsp' = [rtsp EXCEPT !.pc = "returned",
                          !.src = NewRTSPAudioVideoSource(rtsp.url).src,
                          !.err = NewRTSPAudioVideoSource(rtsp.url).err]
  /\ UNCHANGED <<tracks, nextTrack, bufOpen, bufData, dev, pc, arg, ret, todo,
                 held, crashed, hist, starts, owner, ctor>>

\* the two constructors, called with every combination of arguments and of
\* failing device calls
InitConstruct ==
  /\ Fresh
  /\ \E hflip, vflip \in BOOLEAN :
       \E fails \in SUBSET {OpenSteps[j] : j \in 1..Len(OpenSteps)} :
         ctor = NotBuilt(hflip, vflip, fails)
  /\ \E url \in Urls : rtsp = NotCalled(url)

NextConstruct ==
  \/ NewOpen
  \/ NewSetBitrate
  \/ NewFlipHorizontal
  \/ NewFlipVertical
  \/ NewReturn
  \/ CallNewRTSP

SpecConstruct == InitConstruct /\ [][NextConstruct]_vars

\* ------------------------------------------------------------ GetTrack
\* buf := NewBuffer(); track := NewH264VideoTrack(buf); ms.tracks[track] = buf
\* An entry created while another goroutine ranges over the map may be
\* produced by that range or skipped: seen is the set of ranges that will
\* produce it.
GetTrackAdd(c) ==
  /\ ~crashed
  /\ pc[c] = "idle"
  /\ nextTrack <= MaxTracks
  /\ \E seen \in SUBSET {p \in Tasks : Ranging(p)} :
       todo' = [p \in Tasks |->
                  IF p \in seen THEN todo[p] \cup {nextTrack} ELSE todo[p]]
  /\ tracks' = tracks \cup {nextTrack}
  /\ bufOpen' = [bufOpen EXCEPT ![nextTrack] = TRUE]
  /\ bufData' = [bufData EXCEPT ![nextTrack] = <<>>]
  /\ joinedAt' = [joinedAt EXCEPT ![nextTrack] = produced]
  /\ first' = [first EXCEPT ![c] = (tracks = {})]
  /\ arg' = [arg EXCEPT ![c] = nextTrack]
  /\ nextTrack' = nextTrack + 1
  /\ pc' = [pc EXCEPT ![c] = "gt_len"]
  /\ UNCHANGED <<dev, ret, held, crashed, made, starts, owner, last, errAt>>

\* the test of: if len(ms.tracks) == 1
IsFirstTrack == Cardinality(tracks) = 1

GetTrackLen(c) ==
  /\ ~crashed
  /\ pc[c] = "gt_len"
  /\ pc' = [pc EXCEPT ![c] = IF IsFirstTrack THEN "gt_start" ELSE "idle"]
  /\ arg' = [arg EXCEPT ![c] = IF IsFirstTrack THEN arg[c] ELSE Foreign]
  /\ first' = [first EXCEPT ![c] = IF IsFirstTrack THEN first[c] ELSE FALSE]
  /\ UNCHANGED <<tracks, nextTrack, bufOpen, bufData, dev, ret, todo, held,
                 crashed, made, starts, owner, joinedAt, last, errAt>>

\* GetTrack that goes on to the go statement before Start has been called
GetTrackStartLate(c) ==
  /\ ~crashed
  /\ pc[c] = "gt_start"
  /\ pc' = [pc EXCEPT ![c] = "gt_go"]
  /\ UNCHANGED <<tracks, nextTrack, bufOpen, bufData, dev, arg, ret, todo,
                 held, crashed, made, starts, owner, hist>>

\* ms.device.Start()
GetTrackStart(c) ==
  /\ ~crashed
  /\ pc[c] = "gt_start"
  /\ devRunning' = TRUE
  /\ starts' = starts + 1
  /\ pc' = [pc EXCEPT ![c] = "gt_go"]
  /\ UNCHANGED <<tracks, nextTrack, bufOpen, bufData, devClosed, produced,
                 arg, ret, todo, held, crashed, made, owner, hist>>

\* the readLoop goroutine the next go statement launches
NextLoop == CHOOSE l \in Loops : pc[l] = "off" /\ \A k \in Loops : k < l => pc[k] # "off"

\* go ms.readLoop(); return track
GetTrackGo(c) ==
  /\ ~crashed
  /\ pc[c] = "gt_go"
  /\ \E l \in Loops : pc[l] = "off"
  /\ pc' = [pc EXCEPT ![c] = "idle", ![NextLoop] = "read"]
  /\ owner' = [owner EXCEPT ![NextLoop] = arg[c]]
  /\ arg' = [arg EXCEPT ![c] = Foreign]
  /\ first' = [first EXCEPT ![c] = FALSE]
  /\ UNCHANGED <<tracks, nextTrack, bufOpen, bufData, dev, ret, todo, held,
                 crashed, made, starts, joinedAt, last, errAt>>

\* ---------------------------------------------------------- CloseTrack
\* a caller calls ms.CloseTrack(t), t issued earlier or foreign to the source
CloseTrackCall(c, t) ==
  /\ ~crashed
  /\ pc[c] = "idle"
  /\ t \in {Foreign} \cup (1..(nextTrack - 1))
  /\ arg' = [arg EXCEPT ![c] = t]
  /\ ret' = [ret EXCEPT ![c] = "idle"]
  /\ pc' = [pc EXCEPT ![c] = "ct_lookup"]
  /\ UNCHANGED <<tracks, nextTrack, bufOpen, bufData, dev, todo, held,
                 crashed, made, starts, owner, hist>>

\* CloseTrack without the ok test: goes on to delete a track it did not find
AfterLookupNoCheck(p) == "ct_delete"

\* where CloseTrack goes after: buffer, ok := ms.tracks[track]; if !ok { return }
AfterLookup(p) == IF arg[p] \in tracks THEN "ct_delete" ELSE ret[p]

CloseTrackLookup(p) ==
  /\ ~crashed
  /\ pc[p] = "ct_lookup"
  /\ pc' = [pc EXCEPT ![p] = AfterLookup(p)]
  /\ arg' = [arg EXCEPT ![p] = IF arg[p] \in tracks THEN arg[p] ELSE Foreign]
  /\ UNCHANGED <<tracks, nextTrack, bufOpen, bufData, dev, ret, todo, held,
                 crashed, made, starts, owner, hist>>

\* delete(ms.tracks, track)
CloseTrackDelete(p) ==
  /\ ~crashed
  /\ pc[p] = "ct_delete"
  /\ tracks' = tracks \ {arg[p]}
  /\ last' = [last EXCEPT ![p] = (tracks = {arg[p]})]
  /\ pc' = [pc EXCEPT ![p] = "ct_len"]
  /\ UNCHANGED <<nextTrack, bufOpen, bufData, dev, arg, ret, todo, held,
                 crashed, made, starts, owner, joinedAt, first, errAt>>

\* the test of: if len(ms.tracks) == 0
IsLastTrack == Cardinality(tracks) = 0

CloseTrackLen(p) ==
  /\ ~crashed
  /\ pc[p] = "ct_len"
  /\ pc' = [pc EXCEPT ![p] = IF IsLastTrack THEN "ct_stop" ELSE "ct_bufclose"]
  /\ UNCHANGED <<tracks, nextTrack, bufOpen, bufData, dev, arg, ret, todo,
                 held, crashed, made, starts, owner, hist>>

\* ms.device.Stop()
CloseTrackStop(p) ==
  /\ ~crashed
  /\ pc[p] = "ct_stop"
  /\ devRunning' = FALSE
  /\ pc' = [pc EXCEPT ![p] = "ct_bufclose"]
  /\ UNCHANGED <<tracks, nextTrack, bufOpen, bufData, devClosed, produced,
                 arg, ret, todo, held, crashed, made, starts, owner, hist>>

\* buffer.Close(); return
CloseTrackBufClose(p) ==
  /\ ~crashed
  /\ pc[p] = "ct_bufclose"
  /\ bufOpen' = [bufOpen EXCEPT ![arg[p]] = FALSE]
  /\ pc' = [pc EXCEPT ![p] = ret[p]]
  /\ arg' = [arg EXCEPT ![p] = Foreign]
  /\ last' = [last EXCEPT ![p] = FALSE]
  /\ UNCHANGED <<tracks, nextTrack, bufData, dev, ret, todo, held, crashed,
                 made, starts, owner, joinedAt, first, errAt>>

\* --------------------------------------------------------------- Close
\* entries a range still has to produce: one removed before the range
\* reaches it is not produced
Live(p) == todo[p] \cap tracks

\* Close(): for t := range ms.tracks
CloseCall(c) ==
  /\ ~crashed
  /\ pc[c] = "idle"
  /\ todo' = [todo EXCEPT ![c] = tracks]
  /\ pc' = [pc EXCEPT ![c] = "cl_range"]
  /\ UNCHANGED <<tracks, nextTrack, bufOpen, bufData, dev, arg, ret, held,
                 crashed, made, starts, owner, hist>>

\* the next entry of the range: ms.CloseTrack(t); or the end of the range
CloseRange(c) ==
  /\ ~crashed
  /\ pc[c] = "cl_range"
  /\ IF Live(c) = {}
       THEN /\ pc' = [pc EXCEPT ![c] = "cl_devclose"]
            /\ todo' = [todo EXCEPT ![c] = {}]
            /\ UNCHANGED <<arg, ret>>
       ELSE \E t \in Live(c) :
            /\ arg' = [arg EXCEPT ![c] = t]
            /\ ret' = [ret EXCEPT ![c] = "cl_range"]
            /\ todo' = [todo EXCEPT ![c] = Live(c) \ {t}]
            /\ pc' = [pc EXCEPT ![c] = "ct_lookup"]
  /\ UNCHANGED <<tracks, nextTrack, bufOpen, bufData, dev, held, crashed,
                 made, starts, owner, hist>>

\* return ms.device.Close()
CloseDevice(c) ==
  /\ ~crashed
  /\ pc[c] = "cl_devclose"
  /\ devClosed' = TRUE
  /\ ret' = [ret EXCEPT ![c] = "idle"]
  /\ pc' = [pc EXCEPT ![c] = "idle"]
  /\ UNCHANGED <<tracks, nextTrack, bufOpen, bufData, devRunning, produced,
                 arg, todo, held, crashed, made, starts, owner, joinedAt,
                 first, last, errAt>>

\* ------------------------------------------------------------ readLoop
\* the device: a Read returns a chunk while the device is running and has
\* one of its n chunks left
DeviceYields(n) == devRunning /\ ~devClosed /\ produced < n

\* the device: the Read in flight when the device is stopped may return a
\* zero-length terminal read
DeviceReadsZero == ~devRunning /\ ~devClosed

\* the device: a Read may return an error at any time (a device failure,
\* or the device stopped or closed)
DeviceFails == TRUE

\* n, err := ms.device.Read(buf) returns a chunk
ReadChunkOf(l, n) ==
  /\ ~crashed
  /\ pc[l] = "read"
  /\ DeviceYields(n)
  /\ produced' = produced + 1
  /\ held' = [held EXCEPT ![l] = produced + 1]
  /\ pc' = [pc EXCEPT ![l] = "fan"]
  /\ UNCHANGED <<tracks, nextTrack, bufOpen, bufData, devRunning, devClosed,
                 arg, ret, todo, crashed, made, starts, owner, hist>>

ReadChunk(l) == ReadChunkOf(l, MaxChunks)

\* Read returns n == 0 and err == nil: the loop goes on to the range
ReadZero(l) ==
  /\ ~crashed
  /\ pc[l] = "read"
  /\ DeviceReadsZero
  /\ held' = [held EXCEPT ![l] = 0]
  /\ pc' = [pc EXCEPT ![l] = "fan"]
  /\ UNCHANGED <<tracks, nextTrack, bufOpen, bufData, dev, arg, ret, todo,
                 crashed, made, starts, owner, hist>>

\* Read returns an error: if err != nil { return }, which runs the
\* deferred function
ReadError(l) ==
  /\ ~crashed
  /\ pc[l] = "read"
  /\ DeviceFails
  /\ errAt' = [errAt EXCEPT ![l] = tracks]
  /\ pc' = [pc EXCEPT ![l] = "defer"]
  /\ UNCHANGED <<tracks, nextTrack, bufOpen, bufData, dev, arg, ret, todo,
                 held, crashed, made, starts, owner, joinedAt, first, last>>

\* for _, buffer := range ms.tracks
FanStart(l) ==
  /\ ~crashed
  /\ pc[l] = "fan"
  /\ todo' = [todo EXCEPT ![l] = tracks]
  /\ pc' = [pc EXCEPT ![l] = "write"]
  /\ UNCHANGED <<tracks, nextTrack, bufOpen, bufData, dev, arg, ret, held,
                 crashed, made, starts, owner, hist>>

\* Buffer.Write(p): appends the chunk; nothing to append for a zero-length
\* chunk, and a closed buffer drops the write
BufferWrite(data, open, chunk) ==
  IF open /\ chunk # 0 THEN Append(data, chunk) ELSE data

\* readLoop leaving the range after its first entry: one buffer per chunk
FanWriteFirstOnly(l) ==
  /\ ~crashed
  /\ pc[l] = "write"
  /\ IF Live(l) = {}
       THEN UNCHANGED bufData
       ELSE \E t \in Live(l) :
            bufData' = [bufData EXCEPT
                          ![t] = BufferWrite(bufData[t], bufOpen[t], held[l])]
  /\ pc' = [pc EXCEPT ![l] = "read"]
  /\ todo' = [todo EXCEPT ![l] = {}]
  /\ held' = [held EXCEPT ![l] = 0]
  /\ UNCHANGED <<tracks, nextTrack, bufOpen, dev, arg, ret, crashed, made,
                 starts, owner, hist>>

\* readLoop leaving the range at a buffer whose consumer has not read what
\* was written before: the entries after it get no copy of the chunk
FanWriteStopsAtBacklog(l) ==
  /\ ~crashed
  /\ pc[l] = "write"
  /\ IF Live(l) = {}
       THEN /\ pc' = [pc EXCEPT ![l] = "read"]
            /\ todo' = [todo EXCEPT ![l] = {}]
            /\ held' = [held EXCEPT ![l] = 0]
            /\ UNCHANGED bufData
       ELSE \E t \in Live(l) :
            IF Len(bufData[t]) > 0
              THEN /\ pc' = [pc EXCEPT ![l] = "read"]
                   /\ todo' = [todo EXCEPT ![l] = {}]
                   /\ held' = [held EXCEPT ![l] = 0]
                   /\ UNCHANGED bufData
              ELSE /\ bufData' = [bufData EXCEPT
                                    ![t] = BufferWrite(bufData[t], bufOpen[t],
                                                       held[l])]
                   /\ todo' = [todo EXCEPT ![l] = Live(l) \ {t}]
                   /\ UNCHANGED <<pc, held>>
  /\ UNCHANGED <<tracks, nextTrack, bufOpen, dev, arg, ret, crashed, made,
                 starts, owner, hist>>

\* the next entry of the range: buffer.Write(buf[:n]); or the end of the
\* range, and back to Read
FanWrite(l) ==
  /\ ~crashed
  /\ pc[l] = "write"
  /\ IF Live(l) = {}
       THEN /\ pc' = [pc EXCEPT ![l] = "read"]
            /\ todo' = [todo EXCEPT ![l] = {}]
            /\ held' = [held EXCEPT ![l] = 0]
            /\ UNCHANGED bufData
       ELSE \E t \in Live(l) :
            /\ bufData' = [bufData EXCEPT
                             ![t] = BufferWrite(bufData[t], bufOpen[t], held[l])]
            /\ todo' = [todo EXCEPT ![l] = Live(l) \ {t}]
            /\ UNCHANGED <<pc, held>>
  /\ UNCHANGED <<tracks, nextTrack, bufOpen, dev, arg, ret, crashed, made,
                 starts, owner, hist>>

\* the deferred function: for t, _ := range ms.tracks
CleanupStart(l) ==
  /\ ~crashed
  /\ pc[l] = "defer"
  /\ todo' = [todo EXCEPT ![l] = tracks]
  /\ pc' = [pc EXCEPT ![l] = "cleanup"]
  /\ UNCHANGED <<tracks, nextTrack, bufOpen, bufData, dev, arg, ret, held,
                 crashed, made, starts, owner, hist>>

\* the next entry of the range: ms.CloseTrack(t); or the end of the range,
\* and readLoop has returned
CleanupRange(l) ==
  /\ ~crashed
  /\ pc[l] = "cleanup"
  /\ IF Live(l) = {}
       THEN /\ pc' = [pc EXCEPT ![l] = "done"]
            /\ todo' = [todo EXCEPT ![l] = {}]
            /\ errAt' = [errAt EXCEPT ![l] = {}]
            /\ UNCHANGED arg
       ELSE \E t \in Live(l) :
            /\ arg' = [arg EXCEPT ![l] = t]
            /\ todo' = [todo EXCEPT ![l] = Live(l) \ {t}]
            /\ pc' = [pc EXCEPT ![l] = "ct_lookup"]
            /\ UNCHANGED errAt
  /\ UNCHANGED <<tracks, nextTrack, bufOpen, bufData, dev, ret, held, crashed,
                 made, starts, owner, joinedAt, first, last>>

\* ------------------------------------------------------------- runtime
\* ms.tracks is a plain map shared without synchronisation.  The Go runtime
\* throws "concurrent map ..." and ends the process when a map write (the
\* add of GetTrack, the delete of CloseTrack) overlaps a lookup, a range
\* step or another write of a different goroutine.
\* A goroutine whose next step may be a map write:
Writing(p) ==
  \/ pc[p] = "ct_delete"
  \/ p \in Callers /\ pc[p] = "idle" /\ nextTrack <= MaxTracks

\* a goroutine whose next step may be a map access the runtime checks
Accessing(p) ==
  \/ pc[p] \in {"ct_lookup", "ct_delete", "fan", "write", "defer", "cleanup",
                "cl_range"}
  \/ p \in Callers /\ pc[p] = "idle"

Fatal ==
  /\ ~crashed
  /\ \E p, q \in Tasks : p # q /\ Writing(p) /\ Accessing(q)
  /\ crashed' = TRUE
  /\ UNCHANGED <<tracks, nextTrack, bufOpen, bufData, dev, pc, arg, ret, todo,
                 held, made, starts, owner, hist>>

Next ==
  \/ \E c \in Callers : GetTrackAdd(c)
  \/ \E c \in Callers : GetTrackLen(c)
  \/ \E c \in Callers : GetTrackStart(c)
  \/ \E c \in Callers : GetTrackGo(c)
  \/ \E c \in Callers : \E t \in {Foreign} \cup TrackIds : CloseTrackCall(c, t)
  \/ \E p \in Tasks : CloseTrackLookup(p)
  \/ \E p \in Tasks : CloseTrackDelete(p)
  \/ \E p \in Tasks : CloseTrackLen(p)
  \/ \E p \in Tasks : CloseTrackStop(p)
  \/ \E p \in Tasks : CloseTrackBufClose(p)
  \/ \E c \in Callers : CloseCall(c)
  \/ \E c \in Callers : CloseRange(c)
  \/ \E c \in Callers : CloseDevice(c)
  \/ \E l \in Loops : ReadChunk(l)
  \/ \E l \in Loops : ReadZero(l)
  \/ \E l \in Loops : ReadError(l)
  \/ \E l \in Loops : FanStart(l)
  \/ \E l \in Loops : FanWrite(l)
  \/ \E l \in Loops : CleanupStart(l)
  \/ \E l \in Loops : CleanupRange(l)
  \/ Fatal

Spec == Init /\ [][Next]_vars

\* ------------------------------------------------------------ scenario
\* The run of the A, B, C scenario.  The only calls are two GetTrack: the
\* first before any Read, the second at some moment when at least chunk A
\* has been delivered and the loop is back in Read.  The device yields
\* ScenarioChunks chunks and then a read error, and it yields the next chunk
\* or the error only between the calls (the test that drives the scenario
\* obtains a track, then lets the device go on), so no map write overlaps
\* a map access of another goroutine.
ScenarioGetTrack(c) ==
  /\ \/ nextTrack = 1
     \/ /\ nextTrack = 2
        /\ produced >= 1
        /\ \A l \in Loops : pc[l] \in {"off", "read"}
  /\ GetTrackAdd(c)

CallersIdle == \A c \in Callers : pc[c] = "idle"

ScenarioReadChunk(l) == CallersIdle /\ ReadChunkOf(l, ScenarioChunks)

ScenarioReadError(l) ==
  CallersIdle /\ produced = ScenarioChunks /\ ReadError(l)

NextScenario ==
  \/ \E c \in Callers : ScenarioGetTrack(c)
  \/ \E c \in Callers : GetTrackLen(c)
  \/ \E c \in Callers : GetTrackStart(c)
  \/ \E c \in Callers : GetTrackGo(c)
  \/ \E p \in Tasks : CloseTrackLookup(p)
  \/ \E p \in Tasks : CloseTrackDelete(p)
  \/ \E p \in Tasks : CloseTrackLen(p)
  \/ \E p \in Tasks : CloseTrackStop(p)
  \/ \E p \in Tasks : CloseTrackBufClose(p)
  \/ \E l \in Loops : ScenarioReadChunk(l)
  \/ \E l \in Loops : ScenarioReadError(l)
  \/ \E l \in Loops : FanStart(l)
  \/ \E l \in Loops : FanWrite(l)
  \/ \E l \in Loops : CleanupStart(l)
  \/ \E l \in Loops : CleanupRange(l)

SpecScenario == Init /\ [][NextScenario]_vars

\* ------------------------------------------------------------- fan-out
\* The source used by one call at a time while the device keeps producing:
\* a call is made when no other call is under way and every readLoop is
\* blocked in Read, and a Read returns when no call is under way.  No
\* consumer ever reads its track, so every buffer keeps all that was
\* written to it.  A readLoop that can take a step of its fan-out
\* eventually takes it: Buffer.Write returns, and the scheduler runs every
\* runnable goroutine.
LoopsBlocked == \A l \in Loops : pc[l] \in {"off", "read", "done"}

SerialGetTrack(c) == CallersIdle /\ LoopsBlocked /\ GetTrackAdd(c)

SerialCloseTrack(c, t) == CallersIdle /\ LoopsBlocked /\ CloseTrackCall(c, t)

SerialReadChunk(l) == CallersIdle /\ ReadChunk(l)

NextFanOut ==
  \/ \E c \in Callers : SerialGetTrack(c)
  \/ \E c \in Callers : GetTrackLen(c)
  \/ \E c \in Callers : GetTrackStart(c)
  \/ \E c \in Callers : GetTrackGo(c)
  \/ \E c \in Callers : \E t \in {Foreign} \cup TrackIds : SerialCloseTrack(c, t)
  \/ \E p \in Tasks : CloseTrackLookup(p)
  \/ \E p \in Tasks : CloseTrackDelete(p)
  \/ \E p \in Tasks : CloseTrackLen(p)
  \/ \E p \in Tasks : CloseTrackStop(p)
  \/ \E p \in Tasks : CloseTrackBufClose(p)
  \/ \E l \in Loops : SerialReadChunk(l)
  \/ \E l \in Loops : FanStart(l)
  \/ \E l \in Loops : FanWrite(l)

SpecFanOut ==
  /\ Init
  /\ [][NextFanOut]_vars
  /\ \A l \in Loops : WF_vars(FanStart(l)) /\ WF_vars(FanWrite(l))

\* ------------------------------------------------------------- claims
\* positions inside the body of GetTrack
GetTrackBody == {"gt_len", "gt_start", "gt_go"}

\* no GetTrack or CloseTrack call is part-way through its body
Quiescent == \A p \in Tasks : pc[p] \notin GetTrackBody \cup CloseTrackBody

\* C1: whenever no GetTrack/CloseTrack call is part-way through, the device
\* is running if and only if the association set is non-empty.
C1_RunningIffTracks == Quiescent => (devRunning <=> tracks # {})

\* C2: Start is called exactly by the GetTrack whose add took the set from
\* size 0 to 1, Stop exactly by the CloseTrack whose delete took it from 1 to
\* 0, Start never on a started device and Stop never on a stopped one.
C2_RefCountedStartStop ==
  [][\A p \in Tasks :
       /\ (pc[p] = "gt_len" /\ pc'[p] # "gt_len")
            => (pc'[p] = "gt_start" <=> first[p])
       /\ (pc[p] = "gt_start" /\ pc'[p] # "gt_start")
            => (first[p] /\ ~devRunning)
       /\ (pc[p] = "ct_len" /\ pc'[p] # "ct_len")
            => (pc'[p] = "ct_stop" <=> last[p])
       /\ (pc[p] = "ct_stop" /\ pc'[p] # "ct_stop")
            => (last[p] /\ devRunning)]_vars

\* C3: every add, remove and iteration executes inside one mutual-exclusion
\* region: no state has two goroutines inside their accesses to the
\* association set at once.
C3_MutualExclusion == Cardinality({p \in Tasks : InRegion(p)}) <= 1

\* each element of s is the one after its predecessor
Contiguous(s) == \A i \in 1..(Len(s) - 1) : s[i + 1] = s[i] + 1

\* no readLoop holds a chunk it has not finished writing to the buffers
NoChunkInHand == \A l \in Loops : pc[l] \notin {"fan", "write"}

\* C4: the chunks written to an open track's buffer are the chunks the
\* device produced since the track was added, in device order, with no gap,
\* duplicate or reordering (a chunk read just before the add and written
\* after it is allowed as the first one).
C4_ContiguousStream ==
  \A t \in tracks :
    /\ Contiguous(bufData[t])
    /\ Len(bufData[t]) > 0 => bufData[t][1] \in {joinedAt[t], joinedAt[t] + 1}
    /\ (NoChunkInHand /\ produced > joinedAt[t])
         => (Len(bufData[t]) > 0 /\ bufData[t][Len(bufData[t])] = produced)

\* C5: once Close has returned, no GetTrack adds an association, starts the
\* device or launches a read loop.
C5_GetTrackFailsAfterClose ==
  [][devClosed =>
       /\ tracks' \subseteq tracks
       /\ \A c \in Callers : ~(pc[c] = "gt_start" /\ pc'[c] = "gt_go")
       /\ \A l \in Loops : pc[l] = "off" => pc'[l] = "off"]_vars

\* C6: when Close returns, the association set is empty, the buffer of every
\* track issued so far is closed, and the device it closes is stopped.
C6_CloseClosesEverything ==
  [][\A c \in Callers :
       (pc[c] = "cl_devclose" /\ pc'[c] = "idle")
         => /\ tracks = {}
            /\ \A t \in 1..(nextTrack - 1) : ~bufOpen[t]
            /\ ~devRunning]_vars

\* C7: CloseTrack(t) for a track t that is not in the association set returns
\* at once and leaves the set, the device and every buffer as they were.
C7_CloseTrackIdempotent ==
  [][\A p \in Tasks :
       (pc[p] = "ct_lookup" /\ arg[p] \notin tracks /\ pc'[p] # "ct_lookup")
         => /\ pc'[p] = ret[p]
            /\ UNCHANGED <<tracks, bufOpen, bufData, devRunning, devClosed>>]_vars

\* a CloseTrack call is looking up a track that was issued and has been
\* removed, while another track is open and the device runs
C7_Witness ==
  \E p \in Tasks :
    /\ pc[p] = "ct_lookup"
    /\ arg[p] \in 1..(nextTrack - 1) /\ arg[p] \notin tracks
    /\ tracks # {} /\ devRunning /\ ~bufOpen[arg[p]]

\* positions of a readLoop whose Read has returned an error
AfterError == {"defer", "cleanup", "done"} \cup CloseTrackBody

\* C8: after a Read error the loop reads no more; when it returns, every
\* track that was outstanding at the error is out of the association set
\* with its buffer closed; and the removal that empties the set stops the
\* device.
C8_ReadErrorClosesAll ==
  [][\A l \in Loops :
       /\ pc[l] \in AfterError => pc'[l] \in AfterError
       /\ (pc[l] = "cleanup" /\ pc'[l] = "done")
            => \A t \in errAt[l] : t \notin tracks /\ ~bufOpen[t]
       /\ (pc[l] = "ct_len" /\ pc'[l] # "ct_len" /\ last[l])
            => pc'[l] = "ct_stop"]_vars

\* C9: at most one read loop is running at any time.
C9_SingleReadLoop == Cardinality({l \in Loops : Running(l)}) <= 1

\* the chunks from number a to number b, in order
ChunkRun(a, b) == [i \in 1..(b - a + 1) |-> a + i - 1]

\* every goroutine of the scenario has finished
ScenarioOver ==
  /\ produced = ScenarioChunks
  /\ \A c \in Callers : pc[c] = "idle"
  /\ \A l \in Loops : pc[l] \in {"off", "done"}

\* C10: in the scenario T1's stream is exactly A, B, C and then
\* end-of-stream, and T2's, obtained after A was delivered, is exactly B, C
\* and then end-of-stream.
C10_ScenarioStreams ==
  ScenarioOver =>
    /\ bufData[1] = ChunkRun(1, ScenarioChunks) /\ ~bufOpen[1]
    /\ (nextTrack > 2 /\ joinedAt[2] = 1)
         => (bufData[2] = ChunkRun(2, ScenarioChunks) /\ ~bufOpen[2])

\* the scenario has run to its end, with T2 obtained after A and before B
C10_Witness ==
  /\ ScenarioOver
  /\ nextTrack > 2 /\ joinedAt[2] = 1
  /\ Len(bufData[1]) = ScenarioChunks /\ Len(bufData[2]) = ScenarioChunks - 1

\* C11: a step of CloseTrack(t) leaves every other track's association and
\* its buffer's contents and open state as they were and removes no other
\* track from the entries a fan-out still has to write to, and CloseTrack
\* stops the device only when no other track is in the association set.
C11_CloseTrackFrame ==
  [][\A p \in Tasks :
       (pc[p] \in CloseTrackBody /\ pc'[p] # pc[p])
         => /\ \A u \in TrackIds \ {arg[p]} :
                 /\ (u \in tracks') <=> (u \in tracks)
                 /\ bufOpen'[u] = bufOpen[u]
                 /\ bufData'[u] = bufData[u]
                 /\ \A l \in Loops :
                      (pc[l] = "write" /\ u \in Live(l)) => u \in todo'[l] \cap tracks'
            /\ pc[p] = "ct_stop" => tracks = {}]_vars

\* chunk k is among the chunks written to the buffer of track u
Received(u, k) == \E i \in 1..Len(bufData[u]) : bufData[u][i] = k

C13_NoReopenAfterReadError ==
  [][(\E l \in Loops : pc[l] = "done")
       => /\ tracks' \subseteq tracks
          /\ starts' = starts
          /\ \A l \in Loops : pc[l] = "off" => pc'[l] = "off"]_vars

\* C14: for every URL, NewRTSPAudioVideoSource returns a nil source and the
\* not-implemented error.
C14_RTSPNotImplemented ==
  rtsp.pc = "returned" => (rtsp.src = Nil /\ rtsp.err = "errNotImplemented")

\* the constructor has returned for a well-formed RTSP URL
C14_Witness == rtsp.pc = "returned" /\ rtsp.url = "rtsp://camera/live"

\* the device calls the arguments of the constructor ask for, in order
Needed ==
  SelectSeq(OpenSteps, LAMBDA st : /\ st = "FlipHorizontal" => ctor.hflip
                                   /\ st = "FlipVertical" => ctor.vflip)

\* C15: NewV4L2MediaSource returns a source iff every device call it needs
\* succeeds; otherwise it returns nil and the error of the first call that
\* failed, has made no call after that one, and no track exists and the
\* device has not been started.
C15_ConstructorPropagatesErrors ==
  ctor.pc = "returned" =>
    /\ ctor.src # Nil <=> \A i \in 1..Len(Needed) : Needed[i] \notin ctor.fails
    /\ ctor.src # Nil => (ctor.err = Nil /\ ctor.tried = Needed)
    /\ ctor.src = Nil =>
         /\ \E i \in 1..Len(Needed) :
              /\ Needed[i] \in ctor.fails
              /\ \A j \in 1..(i - 1) : Needed[j] \notin ctor.fails
              /\ ctor.err = Needed[i]
              /\ ctor.tried = SubSeq(Needed, 1, i)
         /\ tracks = {} /\ ~devRunning /\ starts = 0

\* the constructor has returned the error of the last of four device calls
C15_Witness ==
  /\ ctor.pc = "returned" /\ ctor.src = Nil
  /\ ctor.hflip /\ ctor.vflip /\ ctor.err = "FlipVertical"
  /\ Len(ctor.tried) = Len(OpenSteps)

\* C16: a read loop whose Read returned zero bytes from the device that the
\* close of the last track stopped issues no further Read.
C16_LoopEndsAfterLastClose ==
  [][\A l \in Loops :
       (pc[l] = "write" /\ held[l] = 0 /\ tracks = {} /\ ~devRunning)
         => pc'[l] # "read"]_vars

\* the read loops that have been launched
Launched == {l \in Loops : pc[l] # "off"}

\* C17: every launch of a read loop comes after a Start of its own, so a
\* loop reads only from a device that has been started, and the track of the
\* GetTrack that launched the loop was added before the launch.
C17_StartBeforeLoop ==
  /\ Cardinality(Launched) <= starts
  /\ \A l \in Launched : owner[l] \in 1..(nextTrack - 1)

\* a read loop is fanning a chunk out to the track whose GetTrack launched it
C17_Witness ==
  \E l \in Loops : pc[l] = "write" /\ held[l] > 0 /\ owner[l] \in Live(l)

\* C18: a read loop that returns from Read when the tracks of its session
\* are gone and the only track is the one whose GetTrack launched a later
\* loop does not remove or close that track and does not stop the device.
C18_StaleLoopSparesNewSession ==
  [][\A l, k \in Loops :
       (l < k /\ pc[k] # "off" /\ errAt[l] = {owner[k]} /\ pc'[l] # pc[l])
         => /\ pc[l] \in {"ct_delete", "ct_bufclose"} => arg[l] # owner[k]
            /\ pc[l] # "ct_stop"]_vars

\* C19: CloseTrack closes a buffer that is open and whose track is out of
\* the association set; whenever no CloseTrack is part-way through, the
\* buffer of an issued track is open iff the track is in the set; and the
\* read loop writes to open buffers only.
C19_BufferClosedOnce ==
  [][/\ \A p \in Tasks :
          (pc[p] = "ct_bufclose" /\ pc'[p] # "ct_bufclose")
            => (bufOpen[arg[p]] /\ arg[p] \notin tracks)
     /\ (\A p \in Tasks : pc[p] \notin CloseTrackBody)
          => \A t \in 1..(nextTrack - 1) : bufOpen[t] <=> t \in tracks
     /\ \A l \in Loops :
          (pc[l] = "write" /\ pc'[l] = "write")
            => \A t \in Live(l) \ todo'[l] : bufOpen[t]]_vars

====
